---- MODULE Spec2Model ----
(***************************************************************************)
(* Vehicle detection and counting: the run of process_video, in its two    *)
(* variants (car_detection.py, and the notebook cell that                  *)
(* create_notebook.py writes).  The Detector (YOLO) and the Tracker        *)
(* (DeepSort) are opaque collaborators: their outputs are drawn from small *)
(* sets.  Confidence scores are in hundredths (40 stands for 0.4).         *)
(***************************************************************************)
EXTENDS Integers, Sequences, FiniteSets, TLC

\* ---- bounds of the model
MaxFrames == 2      \* longest input stream, in frames
NumIds == 2         \* track identities the Tracker hands out
MaxDets == 2        \* most boxes the Detector reports for one frame

\* ---- program constants
Offset == 10
ConfThreshold == 40
NotebookLine == 300
VehicleClasses == {2, 3, 5, 7}

\* ---- inputs
Variants == {"script", "notebook"}
Sources == {"none", "bad", "good"}
FrameHeights == {580, 601}
SelectedPath == <<"clip", ".", "avi">>
Ids == 1..NumIds

\* what the Detector can report for a box: (x1, y1, x2, y2, score, class_id)
DetectorBoxes ==
    { [box |-> <<10, 20, 50, 60>>, score |-> 41, class_id |-> 2],
      [box |-> <<30, 40, 90, 80>>, score |-> 90, class_id |-> 7],
      [box |-> <<10, 20, 50, 60>>, score |-> 40, class_id |-> 3],
      [box |-> <<12, 22, 52, 62>>, score |-> 90, class_id |-> 0] }

\* what to_ltrb() of a track can give, after map(int, ...): centroids 290,
\* 300 (from 300.5), 310 and 150
TrackBoxes ==
    { <<10, 280, 50, 300>>, <<10, 290, 50, 311>>,
      <<10, 300, 50, 320>>, <<10, 100, 50, 200>> }

SeqsUpTo(S, n) == UNION { [1..k -> S] : k \in 0..n }

\* the tracks update_tracks can return.  A returned list holds one track per
\* identity at most, in the order the identities were handed out; the for
\* loop reads it one element at a time, and the model draws each element
\* when the loop reaches it.
Tracks == [track_id : Ids, confirmed : BOOLEAN, ltrb : TrackBoxes]

NoTrack == [track_id |-> 0, confirmed |-> FALSE, ltrb |-> <<0, 0, 0, 0>>]

VARIABLES
    variant, source, nframes, frame_height,      \* the run's inputs
    pc, err, result,
    video_path, output_path, model_loaded, tracker_ready,
    cap, out, windows,
    line_position, counted_ids, total_count, frame_count,
    results, detections, track,
    stages, outFrames, keyPolls, everInBand, seenAgain   \* history of the run

vars == <<variant, source, nframes, frame_height, pc, err, result,
          video_path, output_path, model_loaded, tracker_ready,
          cap, out, windows,
          line_position, counted_ids, total_count, frame_count,
          results, detections, track,
          stages, outFrames, keyPolls, everInBand, seenAgain>>

inputs == <<variant, source, nframes, frame_height>>
setup == <<video_path, output_path, model_loaded, tracker_ready>>
resources == <<cap, out, windows>>
counter == <<line_position, counted_ids, total_count, everInBand, seenAgain>>
frameData == <<results, detections, track>>
history == <<stages, outFrames, keyPolls>>

NoPath == <<>>
NoResult == <<>>

Init ==
    /\ variant \in Variants
    /\ source \in Sources
    /\ nframes \in 0..MaxFrames
    /\ (source # "good" => nframes = 0)
    /\ frame_height \in FrameHeights
    /\ pc = "select"
    /\ err = "none"
    /\ result = NoResult
    /\ video_path = NoPath
    /\ output_path = NoPath
    /\ model_loaded = FALSE
    /\ tracker_ready = FALSE
    /\ cap = "unbound"
    /\ out = "unbound"
    /\ windows = "none"
    /\ line_position = 0
    /\ counted_ids = {}
    /\ total_count = 0
    /\ frame_count = 0
    /\ results = <<>>
    /\ detections = <<>>
    /\ track = NoTrack
    /\ stages = {}
    /\ outFrames = <<>>
    /\ keyPolls = 0
    /\ everInBand = {}
    /\ seenAgain = FALSE

\* ---- pure helpers

\* where an exception raised inside process_video lands: the script's
\* except clause, or (the notebook cell has none) the caller
Raise(v) == IF v = "script" THEN "except" ELSE "raised"

\* int(x) of Python, for a quotient n / 2: truncation toward zero
IntHalf(n) == IF n >= 0 THEN n \div 2 ELSE -((-n) \div 2)

\* path.rsplit('.', 1)[0]
RECURSIVE Stem(_)
Stem(p) ==
    IF p = <<>> THEN <<>>
    ELSE IF p[Len(p)] = "." THEN SubSeq(p, 1, Len(p) - 1)
    ELSE Stem(SubSeq(p, 1, Len(p) - 1))

HasDot(p) == \E i \in 1..Len(p) : p[i] = "."

OutputPath(p) == (IF HasDot(p) THEN Stem(p) ELSE p) \o <<"_processed.mp4">>

LinePosition(v, h) == IF v = "script" THEN h \div 2 ELSE NotebookLine

\* a filter that forgets the class allow-list
Keep_AnyClass(r) == r.score > ConfThreshold

Keep(r) == r.class_id \in VehicleClasses /\ r.score > ConfThreshold

Forward(r) ==
    [ltwh |-> <<r.box[1], r.box[2], r.box[3] - r.box[1], r.box[4] - r.box[2]>>,
     score |-> r.score, class_id |-> r.class_id]

\* the loop over results.boxes.data.tolist()
RECURSIVE FilterDetections(_)
FilterDetections(rs) ==
    IF rs = <<>> THEN <<>>
    ELSE LET rest == FilterDetections(Tail(rs))
         IN  IF Keep(Head(rs)) THEN <<Forward(Head(rs))>> \o rest ELSE rest

Centroid(b) == IntHalf(b[2] + b[4])

\* a band closed at both ends
InBand_Inclusive(cy, line) == (line - Offset) <= cy /\ cy <= (line + Offset)

InBand(cy, line) == (line - Offset) < cy /\ cy < (line + Offset)

\* a loop that forgets `if not track.is_confirmed(): continue`
Counts_Unconfirmed(t, line, counted) ==
    /\ InBand(Centroid(t.ltrb), line)
    /\ t.track_id \notin counted

\* a loop that forgets `if track_id not in counted_ids`
Counts_NoDedup(t, line, counted) ==
    /\ t.confirmed
    /\ InBand(Centroid(t.ltrb), line)

Counts(t, line, counted) ==
    /\ t.confirmed
    /\ InBand(Centroid(t.ltrb), line)
    /\ t.track_id \notin counted

\* `counted_ids = {track_id}` in place of `counted_ids.add(track_id)`
NewCounted_Assign(t, line, counted) ==
    IF t.confirmed /\ InBand(Centroid(t.ltrb), line) /\ t.track_id \notin counted
    THEN {t.track_id} ELSE counted

NewCounted(t, line, counted) ==
    IF Counts(t, line, counted) THEN counted \cup {t.track_id} ELSE counted

\* `total_count += 1` one level out of the membership test
NewTotal_Dedented(t, line, counted, total) ==
    IF t.confirmed /\ InBand(Centroid(t.ltrb), line) THEN total + 1 ELSE total

NewTotal(t, line, counted, total) ==
    IF Counts(t, line, counted) THEN total + 1 ELSE total

\* ---- the steps of process_video

SelectVideo ==
    /\ pc = "select"
    /\ IF source = "none"
       THEN /\ err' = "select"
            /\ pc' = Raise(variant)
            /\ UNCHANGED video_path
       ELSE /\ video_path' = SelectedPath
            /\ pc' = "load_model"
            /\ UNCHANGED err
    /\ UNCHANGED <<inputs, result, output_path, model_loaded, tracker_ready,
                   resources, counter, frame_count, frameData, history>>

LoadModel ==
    /\ pc = "load_model"
    /\ model_loaded' = TRUE
    /\ pc' = "init_tracker"
    /\ UNCHANGED <<inputs, err, result, video_path, output_path, tracker_ready,
                   resources, counter, frame_count, frameData, history>>

InitTracker ==
    /\ pc = "init_tracker"
    /\ tracker_ready' = TRUE
    /\ pc' = "open_capture"
    /\ UNCHANGED <<inputs, err, result, video_path, output_path, model_loaded,
                   resources, counter, frame_count, frameData, history>>

OpenCapture ==
    /\ pc = "open_capture"
    /\ cap' = IF source = "good" THEN "opened" ELSE "unopened"
    /\ IF variant = "script" /\ cap' # "opened"
       THEN /\ err' = "open"
            /\ pc' = Raise(variant)
       ELSE /\ pc' = "setup_writer"
            /\ UNCHANGED err
    /\ UNCHANGED <<inputs, result, setup, out, windows, counter, frame_count,
                   frameData, history>>

SetupWriter ==
    /\ pc = "setup_writer"
    /\ out' = "open"
    /\ output_path' = OutputPath(video_path)
    /\ line_position' = LinePosition(variant, frame_height)
    /\ counted_ids' = {}
    /\ total_count' = 0
    /\ frame_count' = 0
    /\ pc' = "loop"
    /\ UNCHANGED <<inputs, err, result, video_path, model_loaded, tracker_ready,
                   cap, windows, everInBand, seenAgain, frameData, history>>

\* `while cap.isOpened()` and cap.read(); frame_count is the script's
\* counter, kept for the notebook cell as the number of frames read
ReadFrame ==
    /\ pc = "loop"
    /\ IF cap = "opened" /\ frame_count < nframes
       THEN /\ frame_count' = frame_count + 1
            /\ stages' = {"read"}
            /\ pc' = "detect"
       ELSE /\ pc' = "cleanup"
            /\ UNCHANGED <<frame_count, stages>>
    /\ UNCHANGED <<inputs, err, result, setup, resources, counter, frameData,
                   outFrames, keyPolls>>

Detect ==
    /\ pc = "detect"
    /\ \E rs \in SeqsUpTo(DetectorBoxes, MaxDets) :
          /\ results' = rs
          /\ detections' = FilterDetections(rs)
    /\ stages' = stages \cup {"detect"}
    /\ pc' = "update_tracks"
    /\ UNCHANGED <<inputs, err, result, setup, resources, counter, frame_count,
                   track, outFrames, keyPolls>>

\* results and detections are rebound at the top of the next iteration and
\* are not read after update_tracks: the model lets go of them here
UpdateTracks ==
    /\ pc = "update_tracks"
    /\ track' = NoTrack
    /\ results' = <<>>
    /\ detections' = <<>>
    /\ stages' = stages \cup {"track"}
    /\ pc' = "tracks"
    /\ UNCHANGED <<inputs, err, result, setup, resources, counter, frame_count,
                   outFrames, keyPolls>>

ProcessTrack ==
    /\ pc = "tracks"
    /\ \E t \in Tracks :
          /\ t.track_id > track.track_id
          /\ track' = t
          /\ counted_ids' = NewCounted(t, line_position, counted_ids)
          /\ total_count' = NewTotal(t, line_position, counted_ids, total_count)
          /\ LET cy == (t.ltrb[2] + t.ltrb[4]) \div 2
                 inside == /\ t.confirmed
                           /\ line_position - Offset < cy
                           /\ cy < line_position + Offset
             IN  /\ everInBand' = IF inside THEN everInBand \cup {t.track_id}
                                  ELSE everInBand
                 /\ seenAgain' = (seenAgain \/ (inside /\ t.track_id \in counted_ids))
    /\ UNCHANGED <<inputs, pc, err, result, setup, resources, line_position,
                   frame_count, results, detections, history>>

\* the list is exhausted: the line and the total are drawn on the frame
DrawOverlay ==
    /\ pc = "tracks"
    /\ stages' = stages \cup {"count", "render"}
    /\ pc' = "show"
    /\ UNCHANGED <<inputs, err, result, setup, resources, counter, frame_count,
                   frameData, outFrames, keyPolls>>

ShowFrame ==
    /\ pc = "show"
    /\ windows' = "shown"
    /\ stages' = stages \cup {"show"}
    /\ pc' = "write"
    /\ UNCHANGED <<inputs, err, result, setup, cap, out, counter, frame_count,
                   frameData, outFrames, keyPolls>>

\* a loop that forgets out.write(frame)
WriteFrame_Dropped ==
    /\ pc = "write"
    /\ pc' = "waitkey"
    /\ UNCHANGED <<inputs, err, result, setup, resources, counter, frame_count,
                   frameData, stages, outFrames, keyPolls>>

WriteFrame ==
    /\ pc = "write"
    /\ outFrames' = Append(outFrames, [frame |-> frame_count, stages |-> stages])
    /\ pc' = "waitkey"
    /\ UNCHANGED <<inputs, err, result, setup, resources, counter, frame_count,
                   frameData, stages, keyPolls>>

WaitKey ==
    /\ pc = "waitkey"
    /\ keyPolls' = keyPolls + 1
    /\ \E key \in {"q", "other"} :
          pc' = IF key = "q" THEN "cleanup" ELSE "loop"
    /\ UNCHANGED <<inputs, err, result, setup, resources, counter, frame_count,
                   frameData, stages, outFrames>>

\* a cleanup that stops before `return total_count, output_path`
Cleanup_NoReturn ==
    /\ pc = "cleanup"
    /\ cap' = "released"
    /\ out' = "released"
    /\ windows' = "destroyed"
    /\ UNCHANGED <<inputs, pc, err, result, setup, counter, frame_count,
                   frameData, history>>

Cleanup ==
    /\ pc = "cleanup"
    /\ cap' = "released"
    /\ out' = "released"
    /\ windows' = "destroyed"
    /\ result' = <<total_count, output_path>>
    /\ pc' = "returned"
    /\ UNCHANGED <<inputs, err, setup, counter, frame_count, frameData, history>>

\* the steps that call into a library and so can raise
Fallible == {"load_model", "init_tracker", "setup_writer", "loop", "detect",
             "update_tracks", "tracks", "show", "write", "waitkey"}

StepFails ==
    /\ pc \in Fallible
    /\ err' = pc
    /\ pc' = Raise(variant)
    /\ UNCHANGED <<inputs, result, setup, resources, counter, frame_count,
                   frameData, history>>

ExceptHandler ==
    /\ pc = "except"
    /\ cap' = IF cap # "unbound" THEN "released" ELSE cap
    /\ out' = IF out # "unbound" THEN "released" ELSE out
    /\ windows' = "destroyed"
    /\ pc' = "raised"
    /\ UNCHANGED <<inputs, err, result, setup, counter, frame_count, frameData,
                   history>>

Next ==
    \/ SelectVideo
    \/ LoadModel
    \/ InitTracker
    \/ OpenCapture
    \/ SetupWriter
    \/ ReadFrame
    \/ Detect
    \/ UpdateTracks
    \/ ProcessTrack
    \/ DrawOverlay
    \/ ShowFrame
    \/ WriteFrame
    \/ WaitKey
    \/ Cleanup
    \/ StepFails
    \/ ExceptHandler

Spec == Init /\ [][Next]_vars

\* the interpreter runs the function to its end: no step waits on anything
FairSpec == Spec /\ WF_vars(Next)

TypeOK ==
    /\ pc \in {"select", "load_model", "init_tracker", "open_capture",
               "setup_writer", "loop", "detect", "update_tracks", "tracks",
               "show", "write", "waitkey", "cleanup", "except", "returned",
               "raised"}
    /\ cap \in {"unbound", "opened", "unopened", "released"}
    /\ out \in {"unbound", "open", "released"}
    /\ windows \in {"none", "shown", "destroyed"}
    /\ counted_ids \subseteq Ids
    /\ total_count \in 0..NumIds
    /\ frame_count \in 0..MaxFrames
    /\ track \in Tracks \cup {NoTrack}
    /\ everInBand \subseteq Ids

\* ---- properties

Lo == line_position - Offset
Hi == line_position + Offset
CentroidY(t) == (t.ltrb[2] + t.ltrb[4]) \div 2
Observed == track' # track /\ track' # NoTrack
LoopSteps == {"loop", "detect", "update_tracks", "tracks", "show", "write",
              "waitkey"}
Terminal == {"returned", "raised"}

\* C1: the running total always equals the number of distinct identities
\* whose confirmed track had its centroid strictly inside the band on at
\* least one observation so far.
C1_TotalIsDistinctInBand ==
    /\ total_count = Cardinality(everInBand)
    /\ counted_ids = everInBand

\* C1 witness: one identity was seen inside the band again after it was
\* counted, another was observed but never inside the band; the total is 1.
C1_Witness ==
    /\ seenAgain
    /\ total_count = 1
    /\ track # NoTrack
    /\ track.confirmed
    /\ track.track_id \notin everInBand
    /\ frame_count >= 2

\* C2: an observation of a confirmed track counts (total + 1, identity added
\* to counted_ids) if and only if its centroid is strictly between
\* line_position - offset and line_position + offset and its identity is not
\* yet in counted_ids; otherwise it changes neither.
C2_CountsIffInBandAndNew ==
    [][ (Observed /\ track'.confirmed) =>
          LET id == track'.track_id
              cy == CentroidY(track')
              fresh == Lo < cy /\ cy < Hi /\ id \notin counted_ids
          IN  /\ fresh => /\ total_count' = total_count + 1
                          /\ counted_ids' = counted_ids \cup {id}
              /\ ~fresh => /\ total_count' = total_count
                           /\ counted_ids' = counted_ids
              /\ (cy = Lo \/ cy = Hi) => total_count' = total_count
              /\ (cy = line_position /\ id \notin counted_ids)
                    => total_count' = total_count + 1 ]_vars

\* C2 witness: a confirmed track observed with its centroid exactly on
\* line_position - offset, left uncounted.
C2_Witness ==
    /\ track # NoTrack
    /\ track.confirmed
    /\ CentroidY(track) = Lo
    /\ track.track_id \notin counted_ids
    /\ total_count = 0

\* C3: an observation of an identity that is already in counted_ids changes
\* neither the total nor counted_ids, and no step takes an identity out of
\* counted_ids.
C3_CountedStaysCounted ==
    [][ /\ (Observed /\ track'.track_id \in counted_ids)
            => (total_count' = total_count /\ counted_ids' = counted_ids)
        /\ \A id \in counted_ids : id \in counted_ids' ]_vars

\* C3 witness: a counted identity was observed inside the band again, and
\* the track just observed is a counted one.
C3_Witness ==
    /\ seenAgain
    /\ track # NoTrack
    /\ track.track_id \in counted_ids
    /\ total_count = Cardinality(counted_ids)

\* C4: every step leaves counted_ids a superset of what it was and the total
\* no smaller; the total changes only by +1, in a step that adds exactly one
\* new identity to counted_ids.
C4_AppendOnlyMonotone ==
    [][ /\ counted_ids \subseteq counted_ids'
        /\ total_count' >= total_count
        /\ (total_count' # total_count \/ counted_ids' # counted_ids) =>
              /\ total_count' = total_count + 1
              /\ \E id \in Ids \ counted_ids :
                    counted_ids' = counted_ids \cup {id} ]_vars

\* C4 witness: two identities have been added, one after the other.
C4_Witness ==
    /\ Cardinality(counted_ids) = 2
    /\ total_count = 2
    /\ pc = "returned"

\* C5: a failure in the per-frame loop releases the capture, the writer and
\* the windows and then reaches the caller as an error with no result; no
\* exit of process_video leaves a resource open.
C5_ReleasedOnEveryExit ==
    pc \in Terminal =>
       /\ cap # "opened"
       /\ out # "open"
       /\ windows # "shown"
       /\ err \in LoopSteps => (pc = "raised" /\ result = NoResult)

\* C6: with no file selected the run fails with nothing opened; with a
\* source that cannot be opened it fails before any processing: no writer,
\* no frame read or written, no result.
C6_FailsBeforeOpening ==
    /\ source = "none" =>
          /\ ~model_loaded /\ ~tracker_ready
          /\ cap = "unbound" /\ out = "unbound"
          /\ result = NoResult
          /\ pc \in {"select", "except", "raised"}
    /\ source = "bad" =>
          /\ out = "unbound"
          /\ frame_count = 0 /\ outFrames = <<>>
          /\ result = NoResult
          /\ pc # "returned"
          /\ pc = "raised" => err # "none"

\* C7: the observation of a track that is not confirmed changes neither
\* counted_ids nor the total, wherever its centroid is; an identity enters
\* counted_ids only in the observation of its own confirmed track.
C7_OnlyConfirmedCount ==
    [][ /\ (Observed /\ ~track'.confirmed)
            => (total_count' = total_count /\ counted_ids' = counted_ids)
        /\ \A id \in counted_ids' \ counted_ids :
              Observed /\ track'.track_id = id /\ track'.confirmed ]_vars

\* C7 witness: an unconfirmed track observed on the line itself, uncounted.
C7_Witness ==
    /\ track # NoTrack
    /\ ~track.confirmed
    /\ CentroidY(track) = line_position
    /\ track.track_id \notin counted_ids

AtLeastThreshold(r) == r.class_id \in {2, 3, 5, 7} /\ r.score >= ConfThreshold
AboveThreshold(r) == r.class_id \in {2, 3, 5, 7} /\ r.score > ConfThreshold
AsForwarded(rs) == [i \in 1..Len(rs) |-> Forward(rs[i])]

\* C8 as stated: the detections handed to the Tracker are, in order, the
\* Detector outputs of an allowed class whose confidence is at least 0.4.
C8_ForwardedAtLeastThreshold ==
    pc = "update_tracks" =>
        detections = AsForwarded(SelectSeq(results, AtLeastThreshold))

\* C8 amended: the detections handed to the Tracker are, in order, the
\* Detector outputs of an allowed class whose confidence is greater than
\* 0.4; a confidence of exactly 0.4 is dropped.
C8_ForwardedAboveThreshold ==
    pc = "update_tracks" =>
        detections = AsForwarded(SelectSeq(results, AboveThreshold))

\* C8 witness: of two reported boxes, the one at confidence 0.4 was dropped
\* and the other was forwarded.
C8_Witness ==
    /\ pc = "update_tracks"
    /\ Len(results) = 2
    /\ Len(detections) = 1
    /\ \E i \in 1..2 : results[i].score = ConfThreshold
                       /\ results[i].class_id \in VehicleClasses

FullStages == {"read", "detect", "track", "count", "render", "show"}

\* C9: the frames written are the frames read, in order, each written once
\* and after all its stages; a frame is read only when the one before is
\* written; the key is polled once per frame, after the write; a run that
\* ends without an error has written every frame it read.
C9_FrameSequential ==
    /\ \A i \in 1..Len(outFrames) :
          outFrames[i].frame = i /\ outFrames[i].stages = FullStages
    /\ pc \in {"detect", "update_tracks", "tracks", "show", "write"}
          => (frame_count = Len(outFrames) + 1 /\ keyPolls = Len(outFrames))
    /\ pc = "waitkey"
          => (frame_count = Len(outFrames) /\ keyPolls = Len(outFrames) - 1)
    /\ pc \in {"loop", "cleanup", "returned"}
          => (frame_count = Len(outFrames) /\ keyPolls = Len(outFrames))
    /\ keyPolls <= Len(outFrames)
    /\ Len(outFrames) <= frame_count

\* C9 witness: a run that returned after reading and writing two frames.
C9_Witness ==
    /\ pc = "returned"
    /\ err = "none"
    /\ frame_count >= 2
    /\ Len(outFrames) = frame_count

\* C10: a run in which no step fails ends: it returns, with the capture,
\* the writer and the windows released and (total_count, output_path) as
\* its result.
C10_Terminates ==
    <>( \/ err # "none"
        \/ /\ pc = "returned"
           /\ cap = "released" /\ out = "released" /\ windows = "destroyed"
           /\ result = <<total_count, output_path>> )

\* C10 witness: a run that returned a total of 1 after one frame, on the
\* exit key.
C10_Witness ==
    /\ pc = "returned"
    /\ err = "none"
    /\ frame_count = 1
    /\ frame_count < nframes
    /\ result = <<1, <<"clip", "_processed.mp4">> >>

====
